---- MODULE Spec2Model ----
(***************************************************************************)
(* A model of gateflow's simulation core: the gate/wire graph owned by a   *)
(* Circuit (src/src/simulation), its construction API, finalize()          *)
(* (connectivity validation + Kahn's algorithm), propagate(), and the pure *)
(* gate function evaluate().                                               *)
(*                                                                         *)
(* Pointers are modelled as 1-based indices into the owning vectors        *)
(* gates_ / wires_ (the code's ids are the index minus one); NULL (0) is   *)
(* nullptr.  An exception thrown by an operation is recorded in `last`.    *)
(***************************************************************************)
EXTENDS Integers, Sequences, FiniteSets, TLC

VARIABLES
    gates,          \* Circuit::gates_   : sequence of Gate records
    wires,          \* Circuit::wires_   : sequence of Wire records
    input_wires,    \* Circuit::input_wires_  : sequence of wire pointers
    output_wires,   \* Circuit::output_wires_ : sequence of wire pointers
    topo_order,     \* Circuit::topo_order_   : sequence of gate pointers
    finalized,      \* Circuit::finalized_
    last,           \* the last call made, its arguments and its outcome
    pre,            \* the circuit as decompose_to_nand() last found it
    ev,             \* a call of the free function evaluate()
    sched           \* the PropagationScheduler built on the circuit

circ == <<gates, wires, input_wires, output_wires, topo_order, finalized>>
vars == <<gates, wires, input_wires, output_wires, topo_order, finalized, last, pre, ev,
         sched>>

NULL == 0

GateTypes == {"NAND", "AND", "OR", "XOR", "NOT", "BUFFER"}

(***************************************************************************)
(* Sequence helpers                                                        *)
(***************************************************************************)
Range(s) == {s[i] : i \in DOMAIN s}

Count(s, x) == Cardinality({i \in DOMAIN s : s[i] = x})

\* the 1-based position of the first occurrence of x in s, 0 when absent
IndexOf(s, x) ==
    IF x \in Range(s) THEN CHOOSE i \in DOMAIN s : s[i] = x /\ \A j \in 1..(i - 1) : s[j] # x
    ELSE 0

Bit(b) == IF b THEN 1 ELSE 0

(***************************************************************************)
(* evaluate(type, inputs): gate.cpp.  The result is "true", "false", or    *)
(* "invalid_argument" when the call throws.  Each loop is the code's loop. *)
(***************************************************************************)
RECURSIVE and_loop(_, _)
and_loop(inputs, i) ==
    IF i > Len(inputs) THEN TRUE
    ELSE IF ~inputs[i] THEN FALSE
    ELSE and_loop(inputs, i + 1)

RECURSIVE nand_loop(_, _)
nand_loop(inputs, i) ==
    IF i > Len(inputs) THEN FALSE
    ELSE IF ~inputs[i] THEN TRUE
    ELSE nand_loop(inputs, i + 1)

RECURSIVE or_loop(_, _)
or_loop(inputs, i) ==
    IF i > Len(inputs) THEN FALSE
    ELSE IF inputs[i] THEN TRUE
    ELSE or_loop(inputs, i + 1)

RECURSIVE xor_loop(_, _, _)
xor_loop(inputs, i, result) ==
    IF i > Len(inputs) THEN result
    ELSE xor_loop(inputs, i + 1, result # inputs[i])

BoolStr(b) == IF b THEN "true" ELSE "false"

evaluate_mut_xor(type, inputs) ==
    CASE type = "NOT"    -> IF Len(inputs) # 1 THEN "invalid_argument" ELSE BoolStr(~inputs[1])
      [] type = "BUFFER" -> IF Len(inputs) # 1 THEN "invalid_argument" ELSE BoolStr(inputs[1])
      [] type = "AND"    -> IF Len(inputs) < 2 THEN "invalid_argument" ELSE BoolStr(and_loop(inputs, 1))
      [] type = "NAND"   -> IF Len(inputs) < 2 THEN "invalid_argument" ELSE BoolStr(nand_loop(inputs, 1))
      [] type = "OR"     -> IF Len(inputs) < 2 THEN "invalid_argument" ELSE BoolStr(or_loop(inputs, 1))
      [] type = "XOR"    -> IF Len(inputs) < 2 THEN "invalid_argument"
                            ELSE BoolStr(inputs[1] # inputs[2])
      [] OTHER           -> "invalid_argument"

evaluate(type, inputs) ==
    CASE type = "NOT"    -> IF Len(inputs) # 1 THEN "invalid_argument" ELSE BoolStr(~inputs[1])
      [] type = "BUFFER" -> IF Len(inputs) # 1 THEN "invalid_argument" ELSE BoolStr(inputs[1])
      [] type = "AND"    -> IF Len(inputs) < 2 THEN "invalid_argument" ELSE BoolStr(and_loop(inputs, 1))
      [] type = "NAND"   -> IF Len(inputs) < 2 THEN "invalid_argument" ELSE BoolStr(nand_loop(inputs, 1))
      [] type = "OR"     -> IF Len(inputs) < 2 THEN "invalid_argument" ELSE BoolStr(or_loop(inputs, 1))
      [] type = "XOR"    -> IF Len(inputs) < 2 THEN "invalid_argument"
                            ELSE BoolStr(xor_loop(inputs, 1, FALSE))
      [] OTHER           -> "invalid_argument"

(***************************************************************************)
(* Entities as constructed: gate.hpp / wire.hpp member initialisers.       *)
(***************************************************************************)
NewGate(type) ==
    [type |-> type, inputs |-> <<>>, output |-> NULL, state |-> FALSE, dirty |-> TRUE]

NewWire ==
    [value |-> FALSE, previous_value |-> FALSE, source |-> NULL, destinations |-> <<>>]

\* a Circuit value: the six data members of circuit.hpp
EmptyCircuit ==
    [gates |-> <<>>, wires |-> <<>>, input_wires |-> <<>>, output_wires |-> <<>>,
     topo_order |-> <<>>, finalized |-> FALSE]

\* the Circuit the state variables hold
Cur ==
    [gates |-> gates, wires |-> wires, input_wires |-> input_wires,
     output_wires |-> output_wires, topo_order |-> topo_order, finalized |-> finalized]

\* the Circuit becomes c
Becomes(c) ==
    /\ gates' = c.gates
    /\ wires' = c.wires
    /\ input_wires' = c.input_wires
    /\ output_wires' = c.output_wires
    /\ topo_order' = c.topo_order
    /\ finalized' = c.finalized

\* the record kept of a call: its name, its arguments (pointers, indices and
\* booleans as numbers), how it ended, and what it returned
Call(op, args, res) ==
    [op |-> op, args |-> args, res |-> res, ret |-> FALSE,
     changed_gates |-> <<>>, changed_wires |-> <<>>]

(***************************************************************************)
(* Construction API: circuit.cpp                                           *)
(***************************************************************************)
Circuit_add_gate(c, type) == [c EXCEPT !.gates = Append(@, NewGate(type))]

Circuit_add_wire(c) == [c EXCEPT !.wires = Append(@, NewWire)]

\* the exception connect() throws for these arguments, "ok" when it throws none
connect_result_mut_no_output_check(c, wire, source, destination) ==
    IF wire = NULL THEN "invalid_argument"
    ELSE IF source # NULL /\ c.wires[wire].source # NULL /\ c.wires[wire].source # source
         THEN "runtime_error"
    ELSE "ok"

\* connect() without its test of the wire's present source
connect_result_mut_no_source_check(c, wire, source, destination) ==
    IF wire = NULL THEN "invalid_argument"
    ELSE IF source # NULL /\ c.gates[source].output # NULL /\ c.gates[source].output # wire
         THEN "runtime_error"
    ELSE "ok"

connect_result(c, wire, source, destination) ==
    IF wire = NULL THEN "invalid_argument"
    ELSE IF source # NULL /\ c.wires[wire].source # NULL /\ c.wires[wire].source # source
         THEN "runtime_error"
    ELSE IF source # NULL /\ c.gates[source].output # NULL /\ c.gates[source].output # wire
         THEN "runtime_error"
    ELSE "ok"

\* the writes of connect() without Wire::add_destination
connect_links_mut_no_destination(c, wire, source, destination) ==
    LET g1 == IF source # NULL THEN [c.gates EXCEPT ![source].output = wire] ELSE c.gates
        w1 == IF source # NULL THEN [c.wires EXCEPT ![wire].source = source] ELSE c.wires
        g2 == IF destination # NULL
              THEN [g1 EXCEPT ![destination].inputs = Append(@, wire)] ELSE g1
    IN  [c EXCEPT !.gates = g2, !.wires = w1]

\* the writes of connect() once its checks have passed:
\* Wire::set_source + Gate::set_output, then Wire::add_destination + Gate::add_input
connect_links(c, wire, source, destination) ==
    LET g1 == IF source # NULL THEN [c.gates EXCEPT ![source].output = wire] ELSE c.gates
        w1 == IF source # NULL THEN [c.wires EXCEPT ![wire].source = source] ELSE c.wires
        g2 == IF destination # NULL
              THEN [g1 EXCEPT ![destination].inputs = Append(@, wire)] ELSE g1
        w2 == IF destination # NULL
              THEN [w1 EXCEPT ![wire].destinations = Append(@, destination)] ELSE w1
    IN  [c EXCEPT !.gates = g2, !.wires = w2]

Circuit_connect(c, wire, source, destination) ==
    IF connect_result(c, wire, source, destination) = "ok"
    THEN connect_links(c, wire, source, destination)
    ELSE c

Circuit_mark_input(c, wire) == [c EXCEPT !.input_wires = Append(@, wire)]

Circuit_mark_output(c, wire) == [c EXCEPT !.output_wires = Append(@, wire)]

add_gate(type) ==
    /\ Becomes(Circuit_add_gate(Cur, type))
    /\ last' = Call("add_gate", <<Len(gates) + 1>>, "ok")
    /\ UNCHANGED <<pre, ev, sched>>

add_wire ==
    /\ Becomes(Circuit_add_wire(Cur))
    /\ last' = Call("add_wire", <<Len(wires) + 1>>, "ok")
    /\ UNCHANGED <<pre, ev, sched>>

connect(wire, source, destination) ==
    /\ Becomes(Circuit_connect(Cur, wire, source, destination))
    /\ last' = Call("connect", <<wire, source, destination>>,
                    connect_result(Cur, wire, source, destination))
    /\ UNCHANGED <<pre, ev, sched>>

mark_input(wire) ==
    /\ Becomes(Circuit_mark_input(Cur, wire))
    /\ last' = Call("mark_input", <<wire>>, "ok")
    /\ UNCHANGED <<pre, ev, sched>>

mark_output(wire) ==
    /\ Becomes(Circuit_mark_output(Cur, wire))
    /\ last' = Call("mark_output", <<wire>>, "ok")
    /\ UNCHANGED <<pre, ev, sched>>

(***************************************************************************)
(* Entity mutators callable on the pointers the circuit hands out          *)
(* (gate.hpp / wire.hpp); each updates one side of a link only.            *)
(***************************************************************************)
Gate_add_input(gate, wire) ==
    /\ gates' = [gates EXCEPT ![gate].inputs = Append(@, wire)]
    /\ last' = Call("Gate::add_input", <<gate, wire>>, "ok")
    /\ UNCHANGED <<wires, input_wires, output_wires, topo_order, finalized, pre, ev, sched>>

Gate_set_output(gate, wire) ==
    /\ gates' = [gates EXCEPT ![gate].output = wire]
    /\ last' = Call("Gate::set_output", <<gate, wire>>, "ok")
    /\ UNCHANGED <<wires, input_wires, output_wires, topo_order, finalized, pre, ev, sched>>

Wire_set_source(wire, gate) ==
    /\ wires' = [wires EXCEPT ![wire].source = gate]
    /\ last' = Call("Wire::set_source", <<wire, gate>>, "ok")
    /\ UNCHANGED <<gates, input_wires, output_wires, topo_order, finalized, pre, ev, sched>>

Wire_add_destination(wire, gate) ==
    /\ wires' = [wires EXCEPT ![wire].destinations = Append(@, gate)]
    /\ last' = Call("Wire::add_destination", <<wire, gate>>, "ok")
    /\ UNCHANGED <<gates, input_wires, output_wires, topo_order, finalized, pre, ev, sched>>

(***************************************************************************)
(* finalize(): validate_connectivity(), then Kahn's algorithm              *)
(***************************************************************************)
\* the gate loop of validate_connectivity: TRUE when it throws for gate g
gate_link_broken(gs, ws, g) ==
    \/ gs[g].output # NULL /\ ws[gs[g].output].source # g
    \/ NULL \in Range(gs[g].inputs)
    \/ \E w \in Range(gs[g].inputs) :
          Count(ws[w].destinations, g) < Count(gs[g].inputs, w)

\* the wire loop of validate_connectivity: TRUE when it throws for wire w
wire_link_broken(gs, ws, w) ==
    \/ ws[w].source # NULL /\ gs[ws[w].source].output # w
    \/ NULL \in Range(ws[w].destinations)
    \/ \E g \in Range(ws[w].destinations) :
          Count(gs[g].inputs, w) < Count(ws[w].destinations, g)

validate_connectivity_mut_membership(gs, ws) ==
    /\ \A g \in DOMAIN gs :
          /\ gs[g].output # NULL => ws[gs[g].output].source = g
          /\ NULL \notin Range(gs[g].inputs)
          /\ \A w \in Range(gs[g].inputs) : g \in Range(ws[w].destinations)
    /\ \A w \in DOMAIN ws :
          /\ ws[w].source # NULL => gs[ws[w].source].output = w
          /\ NULL \notin Range(ws[w].destinations)
          /\ \A g \in Range(ws[w].destinations) : w \in Range(gs[g].inputs)

\* TRUE when validate_connectivity() returns without throwing
validate_connectivity(gs, ws) ==
    /\ \A g \in DOMAIN gs : ~gate_link_broken(gs, ws, g)
    /\ \A w \in DOMAIN ws : ~wire_link_broken(gs, ws, w)

\* in_degree after the counting loop: input pins whose wire has a source
initial_in_degree(gs, ws) ==
    [g \in DOMAIN gs |->
        Cardinality({i \in DOMAIN gs[g].inputs : ws[gs[g].inputs[i]].source # NULL})]

\* the seeding loop: gates of in-degree 0, in gates_ order
seed_ready(gs, in_degree) ==
    SelectSeq([g \in 1..Len(gs) |-> g], LAMBDA g : in_degree[g] = 0)

\* the inner for loop over out->get_destinations(), from position i
RECURSIVE relax(_, _, _, _)
relax(dests, i, ready, in_degree) ==
    IF i > Len(dests) THEN [ready |-> ready, in_degree |-> in_degree]
    ELSE LET dest == dests[i]
             deg  == [in_degree EXCEPT ![dest] = @ - 1]
         IN  relax(dests, i + 1,
                   IF deg[dest] = 0 THEN Append(ready, dest) ELSE ready, deg)

\* the while (!ready.empty()) loop; returns topo_order_
RECURSIVE kahn(_, _, _, _, _)
kahn(gs, ws, ready, in_degree, order) ==
    IF ready = <<>> THEN order
    ELSE LET current == Head(ready)
             out     == gs[current].output
         IN  IF out = NULL
             THEN kahn(gs, ws, Tail(ready), in_degree, Append(order, current))
             ELSE LET r == relax(ws[out].destinations, 1, Tail(ready), in_degree)
                  IN  kahn(gs, ws, r.ready, r.in_degree, Append(order, current))

\* the gates in the order they were added, with no sorting at all
kahn_order_mut_insertion_order(gs, ws) == [g \in 1..Len(gs) |-> g]

kahn_order(gs, ws) ==
    LET in_degree == initial_in_degree(gs, ws)
    IN  kahn(gs, ws, seed_ready(gs, in_degree), in_degree, <<>>)

\* how finalize() ends on c
finalize_result(c) ==
    IF ~validate_connectivity(c.gates, c.wires) THEN "connectivity_error"
    ELSE IF Len(kahn_order(c.gates, c.wires)) # Len(c.gates) THEN "cycle_error"
    ELSE "ok"

\* a finalize() that sets the flag before it compares the sizes
Circuit_finalize_mut_flag_before_check(c) ==
    IF finalize_result(c) = "connectivity_error" THEN c
    ELSE [c EXCEPT !.topo_order = kahn_order(c.gates, c.wires), !.finalized = TRUE]

\* the circuit finalize() leaves, whether it returns or throws
Circuit_finalize(c) ==
    LET res == finalize_result(c)
    IN  IF res = "connectivity_error" THEN c
        ELSE [c EXCEPT !.topo_order = kahn_order(c.gates, c.wires),
                       !.finalized = IF res = "ok" THEN TRUE ELSE @]

finalize ==
    /\ Becomes(Circuit_finalize(Cur))
    /\ last' = Call("finalize", <<>>, finalize_result(Cur))
    /\ UNCHANGED <<pre, ev, sched>>

(***************************************************************************)
(* Simulation control: set_input / propagate / get_output                  *)
(***************************************************************************)
\* a set_value that forgets to keep the old value
Wire_set_value_mut_no_previous(ws, w, value) == [ws EXCEPT ![w].value = value]

\* Wire::set_value
Wire_set_value(ws, w, value) ==
    [ws EXCEPT ![w].previous_value = ws[w].value, ![w].value = value]

\* index is the code's 0-based size_t index
set_input_result(c, index) ==
    IF index >= Len(c.input_wires) THEN "out_of_range" ELSE "ok"

Circuit_set_input(c, index, value) ==
    IF set_input_result(c, index) = "ok"
    THEN [c EXCEPT !.wires = Wire_set_value(@, c.input_wires[index + 1], value)]
    ELSE c

set_input(index, value) ==
    /\ Becomes(Circuit_set_input(Cur, index, value))
    /\ last' = Call("set_input", <<index, Bit(value)>>, set_input_result(Cur, index))
    /\ UNCHANGED <<pre, ev, sched>>

\* an iteration that reports the output wire whether or not its value changed
propagate_gate_mut_report_all(st, gate) ==
    LET g            == st.gates[gate]
        input_values == [k \in 1..Len(g.inputs) |-> st.wires[g.inputs[k]].value]
        e            == evaluate(g.type, input_values)
        new_state    == (e = "true")
        out          == g.output
        ws           == IF out # NULL THEN Wire_set_value(st.wires, out, new_state)
                        ELSE st.wires
    IN  IF e = "invalid_argument" THEN [st EXCEPT !.res = "invalid_argument"]
        ELSE [gates |-> [st.gates EXCEPT ![gate].state = new_state, ![gate].dirty = FALSE],
              wires |-> ws,
              res   |-> "ok",
              changed_wires |-> IF out # NULL
                                THEN Append(st.changed_wires, out) ELSE st.changed_wires,
              changed_gates |-> IF new_state # g.state
                                THEN Append(st.changed_gates, gate) ELSE st.changed_gates]

\* one iteration of the for loop of propagate(), for `gate`; st carries the
\* circuit's gates and wires, the PropagationResult so far, and res, which is
\* "invalid_argument" once evaluate() has thrown
propagate_gate(st, gate) ==
    LET g            == st.gates[gate]
        input_values == [k \in 1..Len(g.inputs) |-> st.wires[g.inputs[k]].value]
        e            == evaluate(g.type, input_values)
        new_state    == (e = "true")
        old_state    == g.state
        out          == g.output
        ws           == IF out # NULL THEN Wire_set_value(st.wires, out, new_state)
                        ELSE st.wires
    IN  IF e = "invalid_argument" THEN [st EXCEPT !.res = "invalid_argument"]
        ELSE [gates |-> [st.gates EXCEPT ![gate].state = new_state, ![gate].dirty = FALSE],
              wires |-> ws,
              res   |-> "ok",
              changed_wires |-> IF out # NULL /\ ws[out].value # ws[out].previous_value
                                THEN Append(st.changed_wires, out) ELSE st.changed_wires,
              changed_gates |-> IF new_state # old_state
                                THEN Append(st.changed_gates, gate) ELSE st.changed_gates]

\* the loop run over topo_order_ from its last entry to its first
RECURSIVE propagate_loop_mut_reverse(_, _, _)
propagate_loop_mut_reverse(order, i, st) ==
    IF i > Len(order) \/ st.res # "ok" THEN st
    ELSE propagate_loop_mut_reverse(order, i + 1,
                                    propagate_gate(st, order[Len(order) + 1 - i]))

\* the for loop over topo_order_, from position i; it is left when evaluate() throws
RECURSIVE propagate_loop(_, _, _)
propagate_loop(order, i, st) ==
    IF i > Len(order) \/ st.res # "ok" THEN st
    ELSE propagate_loop(order, i + 1, propagate_gate(st, order[i]))

\* propagate() on c: the gates and wires it leaves, the PropagationResult, and
\* res: "runtime_error" (not finalized), "invalid_argument" or "ok"
propagate_run(c) ==
    IF ~c.finalized
    THEN [gates |-> c.gates, wires |-> c.wires, res |-> "runtime_error",
          changed_gates |-> <<>>, changed_wires |-> <<>>]
    ELSE propagate_loop(c.topo_order, 1,
            [gates |-> c.gates, wires |-> c.wires, res |-> "ok",
             changed_gates |-> <<>>, changed_wires |-> <<>>])

Circuit_propagate(c) ==
    LET st == propagate_run(c) IN [c EXCEPT !.gates = st.gates, !.wires = st.wires]

propagate ==
    LET st == propagate_run(Cur)
    IN  /\ Becomes(Circuit_propagate(Cur))
        /\ last' = [Call("propagate", <<>>, st.res) EXCEPT
                       !.changed_gates = IF st.res = "ok" THEN st.changed_gates ELSE <<>>,
                       !.changed_wires = IF st.res = "ok" THEN st.changed_wires ELSE <<>>]
        /\ UNCHANGED <<pre, ev, sched>>

\* the simulation step of main.cpp (set_adder_inputs() then propagate()) and
\* of the decomposition tests, for a circuit of any number of primary inputs:
\* set_input(i, values[i + 1]) for every index, then propagate()
RECURSIVE set_inputs(_, _, _)
set_inputs(c, values, i) ==
    IF i >= Len(values) THEN c
    ELSE set_inputs(Circuit_set_input(c, i, values[i + 1]), values, i + 1)

set_inputs_and_propagate(values) ==
    LET c  == set_inputs(Cur, values, 0)
        st == propagate_run(c)
    IN  /\ gates' = st.gates
        /\ wires' = st.wires
        /\ UNCHANGED <<input_wires, output_wires, topo_order, finalized>>
        /\ last' = [Call("propagate", [i \in DOMAIN values |-> Bit(values[i])], st.res) EXCEPT
                       !.changed_gates = IF st.res = "ok" THEN st.changed_gates ELSE <<>>,
                       !.changed_wires = IF st.res = "ok" THEN st.changed_wires ELSE <<>>]
        /\ UNCHANGED <<pre, ev, sched>>

get_output_result(c, index) ==
    IF index >= Len(c.output_wires) THEN "out_of_range" ELSE "ok"

\* the value get_output() returns when it does not throw
get_output_value(c, index) == c.wires[c.output_wires[index + 1]].value

get_output(index) ==
    /\ last' = [Call("get_output", <<index>>, get_output_result(Cur, index)) EXCEPT
                   !.ret = IF get_output_result(Cur, index) = "ok"
                           THEN get_output_value(Cur, index) ELSE FALSE]
    /\ UNCHANGED <<circ, pre, ev, sched>>

(***************************************************************************)
(* decompose_to_nand(): nand_decompose.cpp                                 *)
(*                                                                         *)
(* link_output(original_output, g) writes through original_output; when    *)
(* the rewritten gate drives no wire that pointer is null and the write is *)
(* undefined behaviour.  `ub` is what the build makes of it: "crash" (the  *)
(* process dies on the store) or "no_effect" (the store is not observed).  *)
(***************************************************************************)
UBOutcomes == {"crash", "no_effect"}

link_input(c, wire, gate) ==
    [c EXCEPT !.gates[gate].inputs = Append(@, wire),
              !.wires[wire].destinations = Append(@, gate)]

link_output(c, wire, gate) ==
    IF wire = NULL THEN [c EXCEPT !.gates[gate].output = NULL]
    ELSE [c EXCEPT !.gates[gate].output = wire, !.wires[wire].source = gate]

\* Wire::remove_destination: erase the first occurrence, if any
remove_destination(dests, gate) ==
    LET i == IndexOf(dests, gate)
    IN  IF i = 0 THEN dests
        ELSE SubSeq(dests, 1, i - 1) \o SubSeq(dests, i + 1, Len(dests))

\* the loop of disconnect_inputs over the gate's inputs, from position i
RECURSIVE disconnect_loop(_, _, _, _)
disconnect_loop(ws, inputs, i, gate) ==
    IF i > Len(inputs) THEN ws
    ELSE disconnect_loop(
            [ws EXCEPT ![inputs[i]].destinations = remove_destination(@, gate)],
            inputs, i + 1, gate)

\* disconnect_inputs() that clears the gate's input list only
disconnect_inputs_mut_keeps_destinations(c, gate) ==
    [c EXCEPT !.gates[gate].inputs = <<>>]

disconnect_inputs(c, gate) ==
    [c EXCEPT !.wires = disconnect_loop(@, c.gates[gate].inputs, 1, gate),
              !.gates[gate].inputs = <<>>]

\* the opening of every case: disconnect_inputs, set_type(NAND), two link_input
retype(c, gate, a, b) ==
    LET c1 == disconnect_inputs(c, gate)
        c2 == [c1 EXCEPT !.gates[gate].type = "NAND"]
    IN  link_input(link_input(c2, a, gate), b, gate)

\* circuit.add_wire() followed by link_output(new wire, gate)
add_output_wire(c, gate) ==
    link_output(Circuit_add_wire(c), Len(c.wires) + 1, gate)

\* circuit.add_gate(NAND) followed by link_input(a, new gate), link_input(b, new gate)
add_nand(c, a, b) ==
    LET g == Len(c.gates) + 1
    IN  link_input(link_input(Circuit_add_gate(c, "NAND"), a, g), b, g)

\* NOT rewritten with the input linked to one pin only
case_NOT_mut_one_pin(c, gate) ==
    LET a  == c.gates[gate].inputs[1]
        c1 == disconnect_inputs(c, gate)
        c2 == [c1 EXCEPT !.gates[gate].type = "NAND"]
    IN  link_input(c2, a, gate)

case_NOT(c, gate) ==
    LET a == c.gates[gate].inputs[1]
    IN  retype(c, gate, a, a)

case_BUFFER(c, gate) ==
    LET a               == c.gates[gate].inputs[1]
        original_output == c.gates[gate].output
        c1    == retype(c, gate, a, a)
        c2    == add_output_wire(c1, gate)
        not_out == Len(c2.wires)
        c3    == add_nand(c2, not_out, not_out)
    IN  link_output(c3, original_output, Len(c3.gates))

\* AND rewritten as the first NAND alone, without the inverting second NAND
case_AND_mut_single_nand(c, gate) ==
    retype(c, gate, c.gates[gate].inputs[1], c.gates[gate].inputs[2])

case_AND(c, gate) ==
    LET a               == c.gates[gate].inputs[1]
        b               == c.gates[gate].inputs[2]
        original_output == c.gates[gate].output
        c1    == retype(c, gate, a, b)
        c2    == add_output_wire(c1, gate)
        nand_out == Len(c2.wires)
        c3    == add_nand(c2, nand_out, nand_out)
    IN  link_output(c3, original_output, Len(c3.gates))

\* OR rewritten without the closing link_output(original_output, final_nand)
case_OR_mut_no_final_link(c, gate) ==
    LET a               == c.gates[gate].inputs[1]
        b               == c.gates[gate].inputs[2]
        c1    == retype(c, gate, a, a)
        c2    == add_output_wire(c1, gate)
        not_a_out == Len(c2.wires)
        c3    == add_nand(c2, b, b)
        c4    == add_output_wire(c3, Len(c3.gates))
        not_b_out == Len(c4.wires)
    IN  add_nand(c4, not_a_out, not_b_out)

case_OR(c, gate) ==
    LET a               == c.gates[gate].inputs[1]
        b               == c.gates[gate].inputs[2]
        original_output == c.gates[gate].output
        c1    == retype(c, gate, a, a)
        c2    == add_output_wire(c1, gate)
        not_a_out == Len(c2.wires)
        c3    == add_nand(c2, b, b)
        c4    == add_output_wire(c3, Len(c3.gates))
        not_b_out == Len(c4.wires)
        c5    == add_nand(c4, not_a_out, not_b_out)
    IN  link_output(c5, original_output, Len(c5.gates))

case_XOR(c, gate) ==
    LET a               == c.gates[gate].inputs[1]
        b               == c.gates[gate].inputs[2]
        original_output == c.gates[gate].output
        c1    == retype(c, gate, a, b)
        c2    == add_output_wire(c1, gate)
        nand_ab_out == Len(c2.wires)
        c3    == add_nand(c2, a, nand_ab_out)
        c4    == add_output_wire(c3, Len(c3.gates))
        nand_a_out == Len(c4.wires)
        c5    == add_nand(c4, b, nand_ab_out)
        c6    == add_output_wire(c5, Len(c5.gates))
        nand_b_out == Len(c6.wires)
        c7    == add_nand(c6, nand_a_out, nand_b_out)
    IN  link_output(c7, original_output, Len(c7.gates))

\* the body of the for loop over original_gates: the switch on the gate's type
decompose_gate(c, gate) ==
    CASE c.gates[gate].type = "NOT"    -> case_NOT(c, gate)
      [] c.gates[gate].type = "BUFFER" -> case_BUFFER(c, gate)
      [] c.gates[gate].type = "AND"    -> case_AND(c, gate)
      [] c.gates[gate].type = "OR"     -> case_OR(c, gate)
      [] c.gates[gate].type = "XOR"    -> case_XOR(c, gate)
      [] OTHER                         -> c

\* TRUE when the case for `gate` ends in link_output(nullptr, ...)
writes_through_null(c, gate) ==
    c.gates[gate].type \in {"BUFFER", "AND", "OR", "XOR"} /\ c.gates[gate].output = NULL

\* the snapshot taken before the loop: the gates that are not NAND, in gates_ order
original_gates(c) ==
    SelectSeq([g \in 1..Len(c.gates) |-> g], LAMBDA g : c.gates[g].type # "NAND")

\* the for loop over original_gates, from position i
RECURSIVE decompose_loop(_, _, _, _)
decompose_loop(c, originals, i, ub) ==
    IF i > Len(originals) THEN [c |-> c, res |-> "ok"]
    ELSE IF writes_through_null(c, originals[i]) /\ ub = "crash"
         THEN [c |-> decompose_gate(c, originals[i]), res |-> "crash"]
    ELSE decompose_loop(decompose_gate(c, originals[i]), originals, i + 1, ub)

\* a pass that drops the cached order at its end instead of recomputing it
decompose_run_mut_drops_order(c, ub) ==
    LET d == decompose_loop(c, original_gates(c), 1, ub)
    IN  IF d.res = "crash" THEN d
        ELSE [c |-> [d.c EXCEPT !.topo_order = <<>>, !.finalized = FALSE],
              res |-> "ok"]

\* decompose_to_nand(c): the circuit it leaves and how it ends
decompose_run(c, ub) ==
    LET d == decompose_loop(c, original_gates(c), 1, ub)
    IN  IF d.res = "crash" THEN d
        ELSE [c |-> Circuit_finalize(d.c), res |-> finalize_result(d.c)]

\* the graph of c without its signal values: each gate's type, pins and output
\* wire, each wire's source and destinations, and the two pin lists
Structure(c) ==
    [gates |-> [g \in DOMAIN c.gates |->
                    [type |-> c.gates[g].type, inputs |-> c.gates[g].inputs,
                     output |-> c.gates[g].output]],
     wires |-> [w \in DOMAIN c.wires |->
                    [source |-> c.wires[w].source,
                     destinations |-> c.wires[w].destinations]],
     input_wires |-> c.input_wires,
     output_wires |-> c.output_wires]

decompose_to_nand(ub) ==
    LET d == decompose_run(Cur, ub)
    IN  /\ Becomes(d.c)
        /\ last' = Call("decompose_to_nand", <<>>, d.res)
        /\ pre' = [done |-> TRUE, res |-> d.res, c |-> Structure(Cur)]
        /\ UNCHANGED <<ev, sched>>

(***************************************************************************)
(* Builders: a circuit as a sequence of construction calls leaves it.      *)
(* A call is a tuple: its name, then its arguments.                        *)
(***************************************************************************)
Apply(c, call) ==
    CASE call[1] = "add_gate"    -> Circuit_add_gate(c, call[2])
      [] call[1] = "add_wire"    -> Circuit_add_wire(c)
      [] call[1] = "connect"     -> Circuit_connect(c, call[2], call[3], call[4])
      [] call[1] = "mark_input"  -> Circuit_mark_input(c, call[2])
      [] call[1] = "mark_output" -> Circuit_mark_output(c, call[2])
      [] call[1] = "finalize"    -> Circuit_finalize(c)

\* TRUE when the call throws on c; the exception leaves the builder
call_throws(c, call) ==
    CASE call[1] = "connect"  -> connect_result(c, call[2], call[3], call[4]) # "ok"
      [] call[1] = "finalize" -> finalize_result(c) # "ok"
      [] OTHER                -> FALSE

\* the calls made in turn, up to the first that throws
RECURSIVE Run(_, _)
Run(c, calls) ==
    IF calls = <<>> THEN c
    ELSE IF call_throws(c, Head(calls)) THEN Apply(c, Head(calls))
    ELSE Run(Apply(c, Head(calls)), Tail(calls))

\* circuit_builder.cpp build_half_adder(), up to its finalize():
\* wires a = 1, b = 2, sum = 3, carry = 4; gates xor = 1, and = 2
half_adder_calls ==
    << <<"add_wire">>, <<"add_wire">>, <<"mark_input", 1>>, <<"mark_input", 2>>,
       <<"add_gate", "XOR">>, <<"add_gate", "AND">>,
       <<"add_wire">>, <<"add_wire">>,
       <<"connect", 1, NULL, 1>>, <<"connect", 2, NULL, 2>>,
       <<"connect", 2, NULL, 1>>, <<"connect", 1, NULL, 2>>,
       <<"connect", 3, 1, NULL>>, <<"connect", 4, 2, NULL>>,
       <<"mark_output", 3>>, <<"mark_output", 4>> >>

build_half_adder == Run(EmptyCircuit, half_adder_calls \o << <<"finalize">> >>)

\* A gate to build: its type, the wires on its pins, whether it drives a wire.
\* The calls a builder makes for it, as the test helpers build_single_gate /
\* build_unary_gate do: add_gate, one connect per pin, then (when it drives
\* a wire) add_wire, connect(out, gate, nullptr), mark_output(out).
gate_calls(def, gate, out) ==
    << <<"add_gate", def.type>> >>
    \o [k \in 1..Len(def.inputs) |-> <<"connect", def.inputs[k], NULL, gate>>]
    \o (IF def.has_out
        THEN << <<"add_wire">>, <<"connect", out, gate, NULL>>, <<"mark_output", out>> >>
        ELSE <<>>)

\* n_in primary inputs (add_wire, mark_input each), then the gates of defs in order
RECURSIVE layered_calls(_, _, _)
layered_calls(defs, gate, n_wires) ==
    IF defs = <<>> THEN <<>>
    ELSE gate_calls(Head(defs), gate, n_wires + 1)
         \o layered_calls(Tail(defs), gate + 1, n_wires + Bit(Head(defs).has_out))

input_calls(n_in) ==
    [k \in 1..(2 * n_in) |-> IF k <= n_in THEN <<"add_wire">> ELSE <<"mark_input", k - n_in>>]

build_layered(n_in, defs) ==
    Run(EmptyCircuit, input_calls(n_in) \o layered_calls(defs, 1, n_in))

\* the gates one may build on the wires 1..n_wires: types, pin counts in lens
GateDefs(types, lens, n_wires, outs) ==
    UNION {[type : types, inputs : [1..n -> 1..n_wires], has_out : outs] : n \in lens}

\* every sequence of k gates, each reading wires that exist when it is built
RECURSIVE LayeredDefs(_, _, _, _, _)
LayeredDefs(types, lens, outs, n_wires, k) ==
    IF k = 0 THEN {<<>>}
    ELSE UNION {{<<d>> \o rest :
                    rest \in LayeredDefs(types, lens, outs, n_wires + Bit(d.has_out), k - 1)} :
                d \in GateDefs(types, lens, n_wires, outs)}

\* the arity evaluate() accepts for the type, of the two the decomposer reads
ContractArity(def) ==
    IF def.type \in {"NOT", "BUFFER"} THEN Len(def.inputs) = 1 ELSE Len(def.inputs) = 2

NoPre == [done |-> FALSE, res |-> "none", c |-> Structure(EmptyCircuit)]

NoEval == [type |-> "NAND", inputs |-> <<>>, result |-> "none"]

InitCircuit(c) ==
    /\ gates = c.gates
    /\ wires = c.wires
    /\ input_wires = c.input_wires
    /\ output_wires = c.output_wires
    /\ topo_order = c.topo_order
    /\ finalized = c.finalized

(***************************************************************************)
(* timing/propagation_scheduler: the depth-based animation clock.          *)
(* The float members hold multiples of 1 / Scale, which a float stores     *)
(* exactly, so current_depth, speed, delta_time and the fractions are      *)
(* integers counting units of 1 / Scale; depths stay plain integers.       *)
(***************************************************************************)
Scale == 2

PlaybackMode == {"REALTIME", "PAUSED", "STEP"}

Max(a, b) == IF a >= b THEN a ELSE b
Min(a, b) == IF a <= b THEN a ELSE b

\* static_cast<int> of a float: truncation toward zero
static_cast_int(x) == IF x >= 0 THEN x \div Scale ELSE -((-x) \div Scale)

\* static_cast<float> of an int
static_cast_float(n) == n * Scale

\* max_input_depth, keeping the depth of the last source it meets
RECURSIVE max_input_depth_mut_last_source(_, _, _, _, _)
max_input_depth_mut_last_source(c, inputs, k, gate_depths, m) ==
    IF k > Len(inputs) THEN m
    ELSE LET src == c.wires[inputs[k]].source
         IN  IF src # NULL /\ src \in DOMAIN gate_depths
             THEN max_input_depth_mut_last_source(c, inputs, k + 1, gate_depths,
                                                  gate_depths[src])
             ELSE max_input_depth_mut_last_source(c, inputs, k + 1, gate_depths, m)

\* compute_depths(): the loop over a gate's input wires, from pin k on
RECURSIVE max_input_depth(_, _, _, _, _)
max_input_depth(c, inputs, k, gate_depths, m) ==
    IF k > Len(inputs) THEN m
    ELSE LET src == c.wires[inputs[k]].source
         IN  IF src # NULL /\ src \in DOMAIN gate_depths
             THEN max_input_depth(c, inputs, k + 1, gate_depths, Max(m, gate_depths[src]))
             ELSE max_input_depth(c, inputs, k + 1, gate_depths, m)

\* compute_depths, leaving max_depth_ as it was cleared
RECURSIVE compute_depths_mut_max_depth_unset(_, _, _)
compute_depths_mut_max_depth_unset(c, i, st) ==
    IF i > Len(c.topo_order) THEN st
    ELSE LET gate  == c.topo_order[i]
             depth == max_input_depth(c, c.gates[gate].inputs, 1, st.gate_depths, -1) + 1
         IN  compute_depths_mut_max_depth_unset(c, i + 1,
                            [gate_depths |-> (gate :> depth) @@ st.gate_depths,
                             max_depth   |-> st.max_depth])

\* compute_depths(): the loop over topological_order(), from position i on
RECURSIVE compute_depths(_, _, _)
compute_depths(c, i, st) ==
    IF i > Len(c.topo_order) THEN st
    ELSE LET gate  == c.topo_order[i]
             depth == max_input_depth(c, c.gates[gate].inputs, 1, st.gate_depths, -1) + 1
         IN  compute_depths(c, i + 1,
                            [gate_depths |-> (gate :> depth) @@ st.gate_depths,
                             max_depth   |-> Max(st.max_depth, depth)])

\* the constructor: compute_depths() and the member initialisers
PropagationScheduler(c) ==
    LET st == compute_depths(c, 1, [gate_depths |-> <<>>, max_depth |-> 0])
    IN  [gate_depths    |-> st.gate_depths,
         max_depth      |-> st.max_depth,
         current_depth  |-> -Scale,
         speed          |-> 3 * Scale,
         mode           |-> "REALTIME",
         step_requested |-> FALSE]

\* the state of the variable while no scheduler is under study
NoScheduler == PropagationScheduler(EmptyCircuit)

\* the bound tick() clamps to: static_cast<float>(max_depth_) + 1.0f
depth_limit(s) == static_cast_float(s.max_depth) + Scale

\* step_target without the test for a negative current_depth_
step_target_mut_no_negative_case(s) ==
    static_cast_float(static_cast_int(s.current_depth) + 1)

\* the target of a requested step
step_target(s) ==
    IF s.current_depth < 0 THEN 0
    ELSE static_cast_float(static_cast_int(s.current_depth) + 1)

\* tick() without its early return for a paused scheduler
Scheduler_tick_mut_no_pause_check(s, delta_time) ==
    IF s.step_requested
    THEN [s EXCEPT !.current_depth  = Min(step_target(s), depth_limit(s)),
                   !.step_requested = FALSE]
    ELSE LET advanced == s.current_depth + (s.speed * delta_time) \div Scale
         IN  [s EXCEPT !.current_depth =
                           IF advanced > depth_limit(s) THEN depth_limit(s)
                           ELSE advanced]

\* tick() without the return that ends its step branch: the step advance
\* is followed by the continuous one
Scheduler_tick_mut_step_falls_through(s, delta_time) ==
    IF s.mode = "PAUSED" /\ ~s.step_requested THEN s
    ELSE LET stepped  == IF s.step_requested
                         THEN Min(step_target(s), depth_limit(s))
                         ELSE s.current_depth
             advanced == stepped + (s.speed * delta_time) \div Scale
         IN  [s EXCEPT !.current_depth =
                           IF advanced > depth_limit(s) THEN depth_limit(s)
                           ELSE advanced,
                       !.step_requested = FALSE]

\* tick() whose continuous advance is not clamped to max_depth_ + 1
Scheduler_tick_mut_no_clamp(s, delta_time) ==
    IF s.mode = "PAUSED" /\ ~s.step_requested THEN s
    ELSE IF s.step_requested
         THEN [s EXCEPT !.current_depth  = Min(step_target(s), depth_limit(s)),
                        !.step_requested = FALSE]
         ELSE [s EXCEPT !.current_depth = @ + (s.speed * delta_time) \div Scale]

Scheduler_tick(s, delta_time) ==
    IF s.mode = "PAUSED" /\ ~s.step_requested THEN s
    ELSE IF s.step_requested
         THEN [s EXCEPT !.current_depth  = Min(step_target(s), depth_limit(s)),
                        !.step_requested = FALSE]
         ELSE LET advanced == s.current_depth + (s.speed * delta_time) \div Scale
              IN  [s EXCEPT !.current_depth =
                                IF advanced > depth_limit(s) THEN depth_limit(s)
                                ELSE advanced]

\* reset() rewinding to depth 0 rather than to -1
Scheduler_reset_mut_depth_zero(s) ==
    [s EXCEPT !.current_depth = 0,
              !.mode = IF s.mode = "STEP" THEN "PAUSED" ELSE s.mode]

Scheduler_reset(s) ==
    [s EXCEPT !.current_depth = -Scale,
              !.mode = IF s.mode = "STEP" THEN "PAUSED" ELSE s.mode]

Scheduler_step(s) ==
    [s EXCEPT !.step_requested = TRUE,
              !.mode = IF s.mode = "REALTIME" THEN "PAUSED" ELSE s.mode]

Scheduler_toggle_pause(s) ==
    [s EXCEPT !.mode = IF s.mode = "PAUSED" THEN "REALTIME" ELSE "PAUSED"]

Scheduler_set_mode(s, mode) == [s EXCEPT !.mode = mode]

Scheduler_set_speed(s, speed) == [s EXCEPT !.speed = speed]

is_gate_resolved(s, gate) ==
    IF gate \notin DOMAIN s.gate_depths THEN FALSE
    ELSE s.current_depth >= static_cast_float(s.gate_depths[gate])

\* is_wire_resolved() taking a primary-input wire as resolved at any depth
is_wire_resolved_mut_inputs_always(s, c, wire) ==
    LET src == c.wires[wire].source
    IN  IF src = NULL THEN TRUE
        ELSE is_gate_resolved(s, src)

is_wire_resolved(s, c, wire) ==
    LET src == c.wires[wire].source
    IN  IF src = NULL THEN s.current_depth >= 0
        ELSE is_gate_resolved(s, src)

\* gate_resolve_fraction() without the std::min that caps it
gate_resolve_fraction_mut_unclamped(s, gate) ==
    IF gate \notin DOMAIN s.gate_depths THEN 0
    ELSE LET gate_d == static_cast_float(s.gate_depths[gate])
         IN  IF s.current_depth < gate_d THEN 0
             ELSE s.current_depth - gate_d

gate_resolve_fraction(s, gate) ==
    IF gate \notin DOMAIN s.gate_depths THEN 0
    ELSE LET gate_d == static_cast_float(s.gate_depths[gate])
         IN  IF s.current_depth < gate_d THEN 0
             ELSE Min(s.current_depth - gate_d, Scale)

wire_signal_progress(s, c, wire) ==
    LET src == c.wires[wire].source
    IN  IF src = NULL
        THEN IF s.current_depth < 0 THEN 0 ELSE Min(s.current_depth + Scale, Scale)
        ELSE IF src \notin DOMAIN s.gate_depths THEN 0
        ELSE LET gate_d == static_cast_float(s.gate_depths[src])
             IN  IF s.current_depth < gate_d THEN 0
                 ELSE Min(s.current_depth - gate_d, Scale)

gate_depth(s, gate) ==
    IF gate \notin DOMAIN s.gate_depths THEN -1 ELSE s.gate_depths[gate]

\* is_complete() comparing with > where the code has >=
is_complete_mut_strict(s) == s.current_depth > depth_limit(s)

is_complete(s) == s.current_depth >= depth_limit(s)

\* a call on the scheduler: the circuit it points to is const; the record of
\* the call keeps the scheduler as the call found it
SchedulerCall(op, args, s) ==
    /\ sched' = s
    /\ last' = Call(op, args, "ok") @@ [before |-> sched]
    /\ UNCHANGED <<circ, pre, ev>>

tick(delta_time) == SchedulerCall("tick", <<delta_time>>, Scheduler_tick(sched, delta_time))

reset == SchedulerCall("reset", <<>>, Scheduler_reset(sched))

step == SchedulerCall("step", <<>>, Scheduler_step(sched))

toggle_pause == SchedulerCall("toggle_pause", <<>>, Scheduler_toggle_pause(sched))

set_mode(mode) == SchedulerCall("set_mode", <<mode>>, Scheduler_set_mode(sched, mode))

set_speed(speed) == SchedulerCall("set_speed", <<speed>>, Scheduler_set_speed(sched, speed))

(***************************************************************************)
(* SpecEval: calls of evaluate() on every type and every input vector of   *)
(* up to MaxEvalInputs values.                                             *)
(***************************************************************************)
MaxEvalInputs == 3

InitEval ==
    /\ InitCircuit(EmptyCircuit)
    /\ last = Call("Circuit", <<>>, "ok")
    /\ pre = NoPre
    /\ sched = NoScheduler
    /\ \E type \in GateTypes, n \in 0..MaxEvalInputs :
          \E inputs \in [1..n -> BOOLEAN] :
             ev = [type |-> type, inputs |-> inputs, result |-> "none"]

call_evaluate ==
    /\ ev.result = "none"
    /\ ev' = [ev EXCEPT !.result = evaluate(ev.type, ev.inputs)]
    /\ UNCHANGED <<circ, last, pre, sched>>

NextEval == call_evaluate

SpecEval == InitEval /\ [][NextEval]_vars

(***************************************************************************)
(* SpecBuild: a Circuit from its construction on, under any sequence of    *)
(* add_gate / add_wire / connect / finalize calls.  The bounds cap the     *)
(* sizes of the vectors.                                                   *)
(***************************************************************************)
MaxGates == 2
MaxWires == 3
MaxFanIn == 2

Init ==
    /\ InitCircuit(EmptyCircuit)
    /\ last = Call("Circuit", <<>>, "ok")
    /\ pre = NoPre
    /\ ev = NoEval
    /\ sched = NoScheduler

\* room left on the destination's input list (NULL: nothing is appended)
FanInRoom(destination, bound) ==
    IF destination = NULL THEN TRUE ELSE Len(gates[destination].inputs) < bound

NextBuild ==
    \/ Len(gates) < MaxGates /\ add_gate("NAND")
    \/ Len(wires) < MaxWires /\ add_wire
    \/ \E wire \in 0..Len(wires), source \in 0..Len(gates), destination \in 0..Len(gates) :
          FanInRoom(destination, MaxFanIn) /\ connect(wire, source, destination)
    \/ finalize

SpecBuild == Init /\ [][NextBuild]_vars

(***************************************************************************)
(* SpecSim: simulation of a built circuit.  Init is any layered circuit of *)
(* n_in primary inputs and k gates, n_in + k <= SimSize, each gate of any  *)
(* type with one or two pins (so some have an arity evaluate() rejects),   *)
(* driving a wire or not; it is not yet finalized.                         *)
(***************************************************************************)
SimSize == 3

Shapes(size) == {s \in (1..size) \X (1..size) : s[1] + s[2] <= size}

InitSim ==
    /\ \E s \in Shapes(SimSize) :
          \E defs \in LayeredDefs(GateTypes, {1, 2}, BOOLEAN, s[1], s[2]) :
             InitCircuit(build_layered(s[1], defs))
    /\ last = Call("Circuit", <<>>, "ok")
    /\ pre = NoPre
    /\ ev = NoEval
    /\ sched = NoScheduler

NextSim ==
    \/ finalize
    \/ \E index \in 0..Len(input_wires), value \in BOOLEAN : set_input(index, value)
    \/ propagate
    \/ \E index \in 0..Len(output_wires) : get_output(index)

SpecSim == InitSim /\ [][NextSim]_vars

(***************************************************************************)
(* SpecNand: decomposition of a finalized circuit inside the decomposer's  *)
(* contract.  Init is build_half_adder(), or any layered circuit of n_in   *)
(* primary inputs and k gates, n_in + k <= NandSize, whose NOT / BUFFER    *)
(* gates have one pin and whose other gates have two, as finalize() leaves *)
(* it.  A crash ends the run.                                              *)
(***************************************************************************)
NandSize == 3

InitNand ==
    /\ \/ InitCircuit(build_half_adder)
       \/ \E s \in Shapes(NandSize) :
             \E defs \in LayeredDefs(GateTypes, {1, 2}, BOOLEAN, s[1], s[2]) :
                /\ \A k \in DOMAIN defs : ContractArity(defs[k])
                /\ InitCircuit(Circuit_finalize(build_layered(s[1], defs)))
    /\ last = Call("Circuit", <<>>, "ok")
    /\ pre = NoPre
    /\ ev = NoEval
    /\ sched = NoScheduler

NextNand ==
    \/ \E values \in [1..Len(input_wires) -> BOOLEAN] :
          last.res # "crash" /\ set_inputs_and_propagate(values)
    \/ \E ub \in UBOutcomes :
          last.res # "crash" /\ decompose_to_nand(ub)

SpecNand == InitNand /\ [][NextNand]_vars

(***************************************************************************)
(* SpecRaw: a Circuit whose entities are also reached through the pointers *)
(* add_gate() / add_wire() return, so that one side of a link can be set   *)
(* without the other (Gate::add_input, Gate::set_output, Wire::set_source, *)
(* Wire::add_destination), as test_circuit.cpp does.                       *)
(***************************************************************************)
RawGates == 2
RawWires == 1
RawFanIn == 2

NextRaw ==
    \/ Len(gates) < RawGates /\ add_gate("NAND")
    \/ Len(wires) < RawWires /\ add_wire
    \/ \E gate \in DOMAIN gates, wire \in DOMAIN wires :
          Len(gates[gate].inputs) < RawFanIn /\ Gate_add_input(gate, wire)
    \/ \E gate \in DOMAIN gates, wire \in DOMAIN wires : Gate_set_output(gate, wire)
    \/ \E wire \in DOMAIN wires, gate \in DOMAIN gates : Wire_set_source(wire, gate)
    \/ \E wire \in DOMAIN wires, gate \in DOMAIN gates :
          Len(wires[wire].destinations) < RawFanIn /\ Wire_add_destination(wire, gate)
    \/ finalize

SpecRaw == Init /\ [][NextRaw]_vars

(***************************************************************************)
(* Properties of evaluate(), under SpecEval.                               *)
(***************************************************************************)
\* the number of true values in inputs
TrueCount(inputs) == Cardinality({i \in DOMAIN inputs : inputs[i]})

\* the arity the gate type accepts
ArityOk(type, n) == IF type \in {"NOT", "BUFFER"} THEN n = 1 ELSE n >= 2

\* the truth function of the type, stated without loops
TruthFunction(type, inputs) ==
    CASE type = "NOT"    -> ~inputs[1]
      [] type = "BUFFER" -> inputs[1]
      [] type = "AND"    -> \A i \in DOMAIN inputs : inputs[i]
      [] type = "NAND"   -> ~(\A i \in DOMAIN inputs : inputs[i])
      [] type = "OR"     -> \E i \in DOMAIN inputs : inputs[i]
      [] type = "XOR"    -> TrueCount(inputs) % 2 = 1

\* C10: evaluate(type, inputs) fails with an arity error exactly when NOT or
\* BUFFER get a number of inputs other than 1, or AND, NAND, OR, XOR get
\* fewer than 2; otherwise it returns the negation (NOT), the identity
\* (BUFFER), all-true (AND), not-all-true (NAND), any-true (OR) or odd
\* parity (XOR) of its inputs.
C10_EvaluateTruthTable ==
    ev.result # "none" =>
        IF ArityOk(ev.type, Len(ev.inputs))
        THEN ev.result = BoolStr(TruthFunction(ev.type, ev.inputs))
        ELSE ev.result = "invalid_argument"

\* a three-input XOR with all inputs true was evaluated (parity 1, where
\* the XOR of the first two alone is 0)
C10_Witness ==
    /\ ev.type = "XOR"
    /\ ev.inputs = <<TRUE, TRUE, TRUE>>
    /\ ev.result = "true"

(***************************************************************************)
(* Properties of finalize() and connect(), under SpecBuild.                *)
(***************************************************************************)
\* gate v reads the output wire of gate u
Edge(gs, ws, u, v) ==
    \E w \in DOMAIN ws : ws[w].source = u /\ v \in Range(ws[w].destinations)

\* a path of 1..k edges leads from u to v
RECURSIVE Path(_, _, _, _, _)
Path(gs, ws, u, v, k) ==
    /\ k >= 1
    /\ \/ Edge(gs, ws, u, v)
       \/ \E m \in DOMAIN gs : Edge(gs, ws, u, m) /\ Path(gs, ws, m, v, k - 1)

\* the gate-dependency graph has a cycle (self-loops included)
HasCycle(gs, ws) == \E g \in DOMAIN gs : Path(gs, ws, g, g, Len(gs))

\* C1: after a successful finalize(), topo_order has as many entries as there
\* are gates, holds every gate exactly once, and puts the source gate of
\* every wire strictly before every gate that reads the wire.
C1_TopoOrderValid ==
    (last.op = "finalize" /\ last.res = "ok") =>
        /\ Len(topo_order) = Len(gates)
        /\ \A g \in DOMAIN gates : Count(topo_order, g) = 1
        /\ \A u, v \in DOMAIN gates :
              Edge(gates, wires, u, v) => IndexOf(topo_order, u) < IndexOf(topo_order, v)

\* finalize() has just succeeded on two gates where the second added drives
\* a wire the first added reads, so the order is not the insertion order
C1_Witness ==
    /\ last.op = "finalize" /\ last.res = "ok"
    /\ Len(gates) = 2
    /\ Edge(gates, wires, 2, 1)
    /\ topo_order = <<2, 1>>

\* C4: a finalize() call on a connectivity-consistent circuit throws the
\* cycle error if and only if the gate-dependency graph has a cycle; a call
\* that throws it leaves the finalized flag as it was, and a call that
\* returns has set it.
C4_CycleErrorIffCycle ==
    [][(last'.op = "finalize" /\ validate_connectivity(gates, wires)) =>
          /\ (last'.res = "cycle_error") <=> HasCycle(gates, wires)
          /\ last'.res = "cycle_error" => finalized' = finalized
          /\ last'.res = "ok" => finalized']_vars

\* finalize() has just thrown the cycle error on a never-finalized circuit
\* of two gates that read each other's output, and the flag is still false
C4_Witness ==
    /\ last.op = "finalize" /\ last.res = "cycle_error"
    /\ Edge(gates, wires, 1, 2) /\ Edge(gates, wires, 2, 1)
    /\ ~finalized

\* the three cases in which connect(wire, source, destination) must fail
ConnectMustFail(wire, source, destination) ==
    IF wire = NULL THEN TRUE
    ELSE IF source = NULL THEN FALSE
    ELSE \/ wires[wire].source \notin {NULL, source}
         \/ gates[source].output \notin {NULL, wire}

\* C6: connect(wire, source, destination) fails when wire is null, when wire
\* has a source other than source, or when source drives a wire other than
\* wire (and only then); a failing call changes no gate and no wire; a call
\* that repeats an existing (wire, source) link succeeds, leaves every
\* source and output link as it is, and with no destination changes nothing.
C6_ConnectFailures ==
    [][last'.op = "connect" =>
          LET wire        == last'.args[1]
              source      == last'.args[2]
              destination == last'.args[3]
          IN  /\ (last'.res # "ok") <=> ConnectMustFail(wire, source, destination)
              /\ last'.res # "ok" => circ' = circ
              /\ (wire # NULL /\ source # NULL) =>
                    ((wires[wire].source = source /\ gates[source].output = wire) =>
                        /\ last'.res = "ok"
                        /\ \A g \in DOMAIN gates : gates'[g].output = gates[g].output
                        /\ \A w \in DOMAIN wires : wires'[w].source = wires[w].source
                        /\ destination = NULL => circ' = circ)]_vars

\* connect() has just failed with a destination given, because its source
\* gate already drives another wire, and the destination gained no input
C6_Witness ==
    /\ last.op = "connect" /\ last.res = "runtime_error"
    /\ last.args[1] # NULL /\ last.args[2] # NULL /\ last.args[3] # NULL
    /\ wires[last.args[1]].source = NULL
    /\ gates[last.args[2]].output \notin {NULL, last.args[1]}
    /\ gates[last.args[3]].inputs = <<>>

(***************************************************************************)
(* Properties of set_input(), propagate() and get_output(), under SpecSim. *)
(***************************************************************************)
\* the values on the input pins of gate g, in stored order
InputValues(g) == [k \in 1..Len(gates[g].inputs) |-> wires[gates[g].inputs[k]].value]

\* every gate's cached state and every wire's value are what they were
SignalsUnchanged ==
    /\ \A g \in DOMAIN gates : gates'[g].state = gates[g].state
    /\ \A w \in DOMAIN wires : wires'[w].value = wires[w].value

\* C3: after propagate() returns on a finalized acyclic circuit, every gate's
\* state is evaluate() of its type and of the values now on its input wires,
\* taken in stored order, and its output wire, if any, carries that state.
C3_PropagateFixedPoint ==
    (last.op = "propagate" /\ last.res = "ok") =>
        \A g \in DOMAIN gates :
            /\ BoolStr(gates[g].state) = evaluate(gates[g].type, InputValues(g))
            /\ gates[g].output # NULL => wires[gates[g].output].value = gates[g].state

\* propagate() has returned on a chain of two gates whose first gate has
\* switched on, so the second gate had to see the first one's new output
C3_Witness ==
    /\ last.op = "propagate" /\ last.res = "ok"
    /\ Len(gates) = 2
    /\ Edge(gates, wires, 1, 2)
    /\ gates[1].state
    /\ 1 \in Range(last.changed_gates)

\* C7 as claimed: before finalize() has succeeded, propagate(), set_input(i, v)
\* and get_output(i) each fail, whatever the index, and leave every gate
\* state and wire value unchanged.
C7_FailBeforeFinalize ==
    [][(~finalized /\ last'.op \in {"propagate", "set_input", "get_output"}) =>
          (last'.res # "ok" /\ SignalsUnchanged)]_vars

\* C8: set_input(i, v) with i past the marked inputs, and get_output(i) with
\* i past the marked outputs, fail and change nothing; in range, set_input
\* writes v to the i-th marked input wire, keeps that wire's old value as
\* previous_value and changes nothing else, and get_output returns the
\* value of the i-th marked output wire.
C8_IndexedAccess ==
    [][/\ last'.op = "set_input" =>
            LET i == last'.args[1]
                v == (last'.args[2] = 1)
            IN  IF i >= Len(input_wires)
                THEN last'.res = "out_of_range" /\ circ' = circ
                ELSE LET w == input_wires[i + 1]
                     IN  /\ last'.res = "ok"
                         /\ wires' = [wires EXCEPT ![w].value = v,
                                                    ![w].previous_value = wires[w].value]
                         /\ UNCHANGED <<gates, input_wires, output_wires,
                                        topo_order, finalized>>
       /\ last'.op = "get_output" =>
            LET i == last'.args[1]
            IN  /\ circ' = circ
                /\ IF i >= Len(output_wires)
                   THEN last'.res = "out_of_range"
                   ELSE /\ last'.res = "ok"
                        /\ last'.ret = wires[output_wires[i + 1]].value]_vars

\* set_input has just written false over a true primary input, and the wire
\* remembers the true value as its previous value
C8_Witness ==
    /\ last.op = "set_input" /\ last.res = "ok" /\ last.args[2] = 0
    /\ wires[input_wires[last.args[1] + 1]].previous_value
    /\ ~wires[input_wires[last.args[1] + 1]].value

\* C9: the ChangeSet propagate() returns lists a gate once if its state after
\* the call differs from its state before, and not at all otherwise; it
\* lists a gate-driven wire once if its value differs, and not at all
\* otherwise; a propagate() that directly follows a returned propagate()
\* returns an empty ChangeSet and changes no state and no value.
C9_ChangeSetExact ==
    [][(last'.op = "propagate" /\ last'.res = "ok") =>
          /\ \A g \in DOMAIN gates :
                Count(last'.changed_gates, g) = Bit(gates'[g].state # gates[g].state)
          /\ \A w \in DOMAIN wires :
                wires[w].source # NULL =>
                    Count(last'.changed_wires, w) = Bit(wires'[w].value # wires[w].value)
          /\ (last.op = "propagate" /\ last.res = "ok") =>
                /\ last'.changed_gates = <<>>
                /\ last'.changed_wires = <<>>
                /\ SignalsUnchanged]_vars

\* propagate() has returned a ChangeSet that lists some gate and some wire
\* while another gate-driven wire kept its value and is not listed
C9_Witness ==
    /\ last.op = "propagate" /\ last.res = "ok"
    /\ last.changed_gates # <<>>
    /\ last.changed_wires # <<>>
    /\ \E w \in DOMAIN wires :
          wires[w].source # NULL /\ w \notin Range(last.changed_wires)

(***************************************************************************)
(* Properties of validate_connectivity(), under SpecRaw.                   *)
(***************************************************************************)
\* some gate and wire disagree on how often the wire is an input of the gate
PinCountsDiffer(gs, ws) ==
    \E g \in DOMAIN gs, w \in DOMAIN ws :
        Count(gs[g].inputs, w) # Count(ws[w].destinations, g)

\* some gate's output wire names another source, or some wire's source gate
\* names another output
BackLinkBroken(gs, ws) ==
    \/ \E g \in DOMAIN gs : gs[g].output # NULL /\ ws[gs[g].output].source # g
    \/ \E w \in DOMAIN ws : ws[w].source # NULL /\ gs[ws[w].source].output # w

\* C5: finalize() throws the connectivity error, with topo_order and the
\* finalized flag untouched, whenever some wire occurs in a gate's input
\* list a different number of times than the gate occurs in the wire's
\* destination list, or a gate's output wire does not name the gate as its
\* source, or a wire's source gate does not name the wire as its output.
C5_ConnectivityError ==
    [][(last'.op = "finalize"
          /\ (PinCountsDiffer(gates, wires) \/ BackLinkBroken(gates, wires))) =>
          /\ last'.res = "connectivity_error"
          /\ circ' = circ]_vars

\* finalize() has just thrown the connectivity error on a once-finalized
\* circuit in which every listed link has a counterpart by membership and
\* only the number of occurrences differs; the earlier order is still there
C5_Witness ==
    /\ last.op = "finalize" /\ last.res = "connectivity_error"
    /\ topo_order # <<>>
    /\ ~BackLinkBroken(gates, wires)
    /\ \A g \in DOMAIN gates, w \in DOMAIN wires :
          (w \in Range(gates[g].inputs)) <=> (g \in Range(wires[w].destinations))
    /\ PinCountsDiffer(gates, wires)

(***************************************************************************)
(* Properties of decompose_to_nand(), under SpecNand.                      *)
(***************************************************************************)
\* the circuit of structure st as its construction leaves it: every value
\* and every cached state false, then finalize()
Rebuilt(st) ==
    Circuit_finalize(
        [gates |-> [g \in DOMAIN st.gates |->
                       [type |-> st.gates[g].type, inputs |-> st.gates[g].inputs,
                        output |-> st.gates[g].output, state |-> FALSE, dirty |-> TRUE]],
         wires |-> [w \in DOMAIN st.wires |->
                       [value |-> FALSE, previous_value |-> FALSE,
                        source |-> st.wires[w].source,
                        destinations |-> st.wires[w].destinations]],
         input_wires |-> st.input_wires, output_wires |-> st.output_wires,
         topo_order |-> <<>>, finalized |-> FALSE])

\* what get_output(0), get_output(1), ... return on c
Outputs(c) == [i \in 1..Len(c.output_wires) |-> get_output_value(c, i - 1)]

\* the outputs of the circuit of structure st after set_input of every bit of
\* bits (numbers 0 / 1) and propagate()
OutputsFor(st, bits) ==
    Outputs(Circuit_propagate(set_inputs(Rebuilt(st), [i \in DOMAIN bits |-> bits[i] = 1], 0)))

\* the structure build_half_adder() leaves
HalfAdder == Structure(build_half_adder)

\* C2: when decompose_to_nand has returned on a circuit of 1-input NOT /
\* BUFFER and 2-input AND / OR / XOR / NAND gates, then for every assignment
\* of the primary inputs, set_input + propagate() make get_output(i) return
\* what they make it return on the circuit as it was before the call (the
\* outputs depend on the structure and the assignment alone); the
\* half adder gives (0,0)->(0,0), (0,1)->(1,0), (1,0)->(1,0), (1,1)->(0,1)
\* both before and after.
C2_DecomposePreservesOutputs ==
    (last.op = "propagate" /\ last.res = "ok") =>
        /\ Outputs(Cur) = OutputsFor(Structure(Cur), last.args)
        /\ (pre.done /\ pre.res = "ok") => Outputs(Cur) = OutputsFor(pre.c, last.args)
        /\ (Structure(Cur) = HalfAdder \/ (pre.done /\ pre.c = HalfAdder)) =>
              Outputs(Cur) = << (last.args[1] + last.args[2]) % 2 = 1,
                                last.args[1] + last.args[2] = 2 >>

\* the decomposed half adder has just added 1 + 1: sum 0, carry 1
C2_Witness ==
    /\ pre.done /\ pre.res = "ok" /\ pre.c = HalfAdder
    /\ last.op = "propagate" /\ last.res = "ok" /\ last.args = <<1, 1>>
    /\ Outputs(Cur) = <<FALSE, TRUE>>
    /\ \A g \in DOMAIN gates : gates[g].type = "NAND"

\* the number of gates of structure st that have the given type
TypeCount(st, type) == Cardinality({g \in DOMAIN st.gates : st.gates[g].type = type})

\* the gates the pass adds to a circuit of structure st: none per NOT (and
\* per NAND), 1 per BUFFER, 1 per AND, 2 per OR, 3 per XOR
Growth(st) ==
    TypeCount(st, "BUFFER") + TypeCount(st, "AND")
      + 2 * TypeCount(st, "OR") + 3 * TypeCount(st, "XOR")

\* C11: when decompose_to_nand has returned on a circuit of 1- and 2-input
\* gates, every gate, original or synthesized, has type NAND and exactly two
\* input pins, and the gate count has grown by 0 per NOT, 1 per BUFFER, 1 per
\* AND, 2 per OR and 3 per XOR present before the pass.
C11_AllNandAndGrowth ==
    (last.op = "decompose_to_nand" /\ last.res = "ok") =>
        /\ \A g \in DOMAIN gates :
              gates[g].type = "NAND" /\ Len(gates[g].inputs) = 2
        /\ Len(gates) = Len(pre.c.gates) + Growth(pre.c)

\* decompose_to_nand has just returned on the half adder: one XOR and one
\* AND have become six NAND gates
C11_Witness ==
    /\ last.op = "decompose_to_nand" /\ last.res = "ok"
    /\ pre.c = HalfAdder
    /\ Len(gates) = 6

\* C12: decompose_to_nand on a circuit whose gates are all NAND returns and
\* changes nothing: the gate and wire counts, every gate's type, inputs and
\* output, every wire's source and destinations (and every value, pin list
\* and the order) stay as they are; so a second application, which finds
\* only NAND gates, leaves the circuit of the first.
C12_AllNandNoOp ==
    [][(last'.op = "decompose_to_nand"
          /\ \A g \in DOMAIN gates : gates[g].type = "NAND") =>
          /\ last'.res = "ok"
          /\ circ' = circ]_vars

\* decompose_to_nand has been applied to the half adder and then again to
\* the six NAND gates the first application left
C12_Witness ==
    /\ last.op = "decompose_to_nand" /\ last.res = "ok"
    /\ pre.done /\ pre.c = Structure(Cur)
    /\ Len(gates) = 6
    /\ \A g \in DOMAIN gates : gates[g].type = "NAND"

(***************************************************************************)
(* circuit_builder.cpp build_ripple_carry_adder(bits), bits >= 1 (the      *)
(* builder throws for bits < 1).  Wires a[i] = i + 1, b[i] = bits + i + 1; *)
(* stage 0 adds gates 1, 2 and wires 2 bits + 1, 2 bits + 2; stage i >= 1  *)
(* adds five gates and five wires, and reads the carry of stage i - 1.     *)
(***************************************************************************)
\* the two loops that create and mark a[0..bits-1], then b[0..bits-1]
adder_input_calls(bits) ==
    [k \in 1..(4 * bits) |->
        IF k % 2 = 1 THEN <<"add_wire">> ELSE <<"mark_input", k \div 2>>]

\* the carry wire that stage i >= 1 reads, and that stage i - 1 drives
carry_wire(bits, i) == 2 * bits + 2 + 5 * (i - 1)

\* the sum wire of stage i
sum_wire(bits, i) == IF i = 0 THEN 2 * bits + 1 ELSE carry_wire(bits, i) + 3

\* the i == 0 branch: a half adder
first_stage_calls(bits) ==
    LET a == 1  b == bits + 1  sum_out == 2 * bits + 1  carry_out == 2 * bits + 2
    IN  << <<"add_gate", "XOR">>, <<"add_gate", "AND">>, <<"add_wire">>, <<"add_wire">>,
           <<"connect", a, NULL, 1>>, <<"connect", b, NULL, 1>>,
           <<"connect", a, NULL, 2>>, <<"connect", b, NULL, 2>>,
           <<"connect", sum_out, 1, NULL>>, <<"connect", carry_out, 2, NULL>> >>

\* a stage whose second XOR reads a[i] where it should read the carry
full_stage_calls_mut_no_carry(bits, i) ==
    LET a == i + 1  b == bits + i + 1
        g == 2 + 5 * (i - 1)
        w == carry_wire(bits, i)
    IN  << <<"add_gate", "XOR">>, <<"add_gate", "AND">>, <<"add_wire">>, <<"add_wire">>,
           <<"connect", a, NULL, g + 1>>, <<"connect", b, NULL, g + 1>>,
           <<"connect", a, NULL, g + 2>>, <<"connect", b, NULL, g + 2>>,
           <<"connect", w + 1, g + 1, NULL>>, <<"connect", w + 2, g + 2, NULL>>,
           <<"add_gate", "XOR">>, <<"add_gate", "AND">>, <<"add_wire">>, <<"add_wire">>,
           <<"connect", w + 1, NULL, g + 3>>, <<"connect", a, NULL, g + 3>>,
           <<"connect", w + 1, NULL, g + 4>>, <<"connect", w, NULL, g + 4>>,
           <<"connect", w + 3, g + 3, NULL>>, <<"connect", w + 4, g + 4, NULL>>,
           <<"add_gate", "OR">>, <<"add_wire">>,
           <<"connect", w + 2, NULL, g + 5>>, <<"connect", w + 4, NULL, g + 5>>,
           <<"connect", w + 5, g + 5, NULL>> >>

\* the else branch, i >= 1: a full adder on a[i], b[i] and carry_in
full_stage_calls(bits, i) ==
    LET a == i + 1  b == bits + i + 1
        g == 2 + 5 * (i - 1)
        carry_in == carry_wire(bits, i)
        w == carry_in
        xor1 == g + 1  and1 == g + 2  xor1_out == w + 1  and1_out == w + 2
        xor2 == g + 3  and2 == g + 4  sum_out == w + 3   and2_out == w + 4
        or_gate == g + 5  carry_out == w + 5
    IN  << <<"add_gate", "XOR">>, <<"add_gate", "AND">>, <<"add_wire">>, <<"add_wire">>,
           <<"connect", a, NULL, xor1>>, <<"connect", b, NULL, xor1>>,
           <<"connect", a, NULL, and1>>, <<"connect", b, NULL, and1>>,
           <<"connect", xor1_out, xor1, NULL>>, <<"connect", and1_out, and1, NULL>>,
           <<"add_gate", "XOR">>, <<"add_gate", "AND">>, <<"add_wire">>, <<"add_wire">>,
           <<"connect", xor1_out, NULL, xor2>>, <<"connect", carry_in, NULL, xor2>>,
           <<"connect", xor1_out, NULL, and2>>, <<"connect", carry_in, NULL, and2>>,
           <<"connect", sum_out, xor2, NULL>>, <<"connect", and2_out, and2, NULL>>,
           <<"add_gate", "OR">>, <<"add_wire">>,
           <<"connect", and1_out, NULL, or_gate>>, <<"connect", and2_out, NULL, or_gate>>,
           <<"connect", carry_out, or_gate, NULL>> >>

\* the loop over the stages, from stage i
RECURSIVE stage_calls(_, _)
stage_calls(bits, i) ==
    IF i >= bits THEN <<>>
    ELSE (IF i = 0 THEN first_stage_calls(bits) ELSE full_stage_calls(bits, i))
         \o stage_calls(bits, i + 1)

\* mark_output of sum[0..bits-1], then of the last carry
adder_output_calls(bits) ==
    [k \in 1..(bits + 1) |->
        <<"mark_output", IF k <= bits THEN sum_wire(bits, k - 1) ELSE carry_wire(bits, bits)>>]

build_ripple_carry_adder(bits) ==
    Run(EmptyCircuit,
        adder_input_calls(bits) \o stage_calls(bits, 0) \o adder_output_calls(bits)
          \o << <<"finalize">> >>)

RECURSIVE Pow2(_)
Pow2(n) == IF n = 0 THEN 1 ELSE 2 * Pow2(n - 1)

\* set_adder_inputs: input i carries (a >> i) & 1, input bits + i carries (b >> i) & 1
adder_bits(bits, a, b) ==
    [k \in 1..(2 * bits) |->
        IF k <= bits THEN (a \div Pow2(k - 1)) % 2 = 1
        ELSE (b \div Pow2(k - bits - 1)) % 2 = 1]

\* read_adder_output: the outputs of c as a little-endian integer
RECURSIVE read_bits(_, _)
read_bits(c, i) ==
    IF i >= Len(c.output_wires) THEN 0
    ELSE Bit(get_output_value(c, i)) * Pow2(i) + read_bits(c, i + 1)

read_adder_output(c) == read_bits(c, 0)

(***************************************************************************)
(* SpecAdder: build_ripple_carry_adder(bits) for bits in 1..MaxBits; any   *)
(* pair of operands is written and propagated, and the circuit may be      *)
(* decomposed once, at any time (main.cpp decomposes the adder it has just *)
(* built, the tests one that has already been simulated).                  *)
(***************************************************************************)
MaxBits == 2

\* the width of the adder the state holds
Width == Len(input_wires) \div 2

Operands(bits) == (0..(Pow2(bits) - 1)) \X (0..(Pow2(bits) - 1))

InitAdder ==
    /\ \E bits \in 1..MaxBits : InitCircuit(build_ripple_carry_adder(bits))
    /\ last = Call("Circuit", <<>>, "ok")
    /\ pre = NoPre
    /\ ev = NoEval
    /\ sched = NoScheduler

NextAdder ==
    \/ \E ab \in Operands(Width) :
          last.res # "crash" /\ set_inputs_and_propagate(adder_bits(Width, ab[1], ab[2]))
    \/ \E ub \in UBOutcomes :
          ~pre.done /\ decompose_to_nand(ub)

SpecAdder == InitAdder /\ [][NextAdder]_vars

\* C13: on build_ripple_carry_adder(n), after the bits of a are written to
\* inputs 0..n-1, those of b to inputs n..2n-1, and propagate() has run,
\* outputs 0..n read as a little-endian integer are a + b, before
\* decompose_to_nand and after it alike.
C13_AdderAdds ==
    (last.op = "propagate" /\ last.res = "ok") =>
        \E ab \in Operands(Width) :
            /\ last.args = [k \in 1..(2 * Width) |-> Bit(adder_bits(Width, ab[1], ab[2])[k])]
            /\ Len(output_wires) = Width + 1
            /\ read_adder_output(Cur) = ab[1] + ab[2]

\* the decomposed 2-bit adder has just added 3 + 3 = 6, carry set,
\* after having held the sum of 1 + 2
C13_Witness ==
    /\ pre.done /\ pre.res = "ok"
    /\ \A g \in DOMAIN gates : gates[g].type = "NAND"
    /\ last.op = "propagate" /\ last.res = "ok" /\ last.args = <<1, 1, 1, 1>>
    /\ read_adder_output(Cur) = 6
    /\ get_output_value(Cur, 2)


(***************************************************************************)
(* SpecSched: a PropagationScheduler constructed on a finalized circuit,   *)
(* as rebuild_app_state() of main.cpp and the scheduler tests do, under    *)
(* any sequence of calls.  Init is the empty circuit or any layered        *)
(* circuit of n_in primary inputs and k NOT / NAND gates, n_in + k <=      *)
(* SchedSize.  Speeds are whole numbers of depth-units per second (the     *)
(* tests use 1.0, the member starts at 3.0); frame times are not negative. *)
(***************************************************************************)
SchedSize == 4

Speeds == {Scale, 2 * Scale}

DeltaTimes == {0, 1, Scale}

InitSched ==
    /\ \/ InitCircuit(Circuit_finalize(EmptyCircuit))
       \/ \E s \in Shapes(SchedSize) :
             \E defs \in LayeredDefs({"NOT", "NAND"}, {1, 2}, {TRUE}, s[1], s[2]) :
                /\ \A k \in DOMAIN defs : ContractArity(defs[k])
                /\ InitCircuit(Circuit_finalize(build_layered(s[1], defs)))
    /\ sched = PropagationScheduler(Cur)
    /\ last = Call("PropagationScheduler", <<>>, "ok")
    /\ pre = NoPre
    /\ ev = NoEval

NextSched ==
    \/ \E delta_time \in DeltaTimes : tick(delta_time)
    \/ reset
    \/ step
    \/ toggle_pause
    \/ \E mode \in PlaybackMode : set_mode(mode)
    \/ \E speed \in Speeds : set_speed(speed)

SpecSched == InitSched /\ [][NextSched]_vars


\* gate v reads the output of gate u: one of v's input wires has source u
Reads(c, v, u) ==
    \E k \in DOMAIN c.gates[v].inputs : c.wires[c.gates[v].inputs[k]].source = u

\* the source gates of the input wires of gate g
SourceGates(c, g) == {u \in DOMAIN c.gates : Reads(c, g, u)}

\* the greatest member of a non-empty set of integers
Greatest(S) == CHOOSE m \in S : \A x \in S : x <= m

\* the chains of gates, each read by the next, that end at gate g
ChainsTo(c, g) ==
    {p \in UNION {[1..n -> DOMAIN c.gates] : n \in 1..Len(c.gates)} :
        /\ p[Len(p)] = g
        /\ \A i \in 1..(Len(p) - 1) : Reads(c, p[i + 1], p[i])}

\* the longest path, in gate-hops, from a primary input to gate g
LongestPath(c, g) == Greatest({Len(p) - 1 : p \in ChainsTo(c, g)})

\* C14: for a scheduler constructed on a finalized circuit, gate_depth(g) is
\* 0 when no input wire of g has a source gate and otherwise 1 + the greatest
\* gate_depth of the source gates of g's input wires; it is the length of the
\* longest path in gate-hops from a primary input to g; depth(u) < depth(v)
\* whenever v reads u's output; max_depth is the greatest depth of all
\* gates, 0 for a circuit with no gates.
C14_GateDepths ==
    /\ \A g \in DOMAIN gates :
          /\ gate_depth(sched, g) =
                IF SourceGates(Cur, g) = {} THEN 0
                ELSE 1 + Greatest({gate_depth(sched, u) : u \in SourceGates(Cur, g)})
          /\ gate_depth(sched, g) = LongestPath(Cur, g)
    /\ \A u, v \in DOMAIN gates :
          Reads(Cur, v, u) => gate_depth(sched, u) < gate_depth(sched, v)
    /\ sched.max_depth = Greatest({gate_depth(sched, g) : g \in DOMAIN gates} \cup {0})

\* three gates, the third reading the first directly and through the
\* second: its depth is 2, the longer of its two paths
C14_Witness ==
    /\ Len(gates) = 3
    /\ Reads(Cur, 2, 1) /\ Reads(Cur, 3, 1) /\ Reads(Cur, 3, 2)
    /\ gate_depth(sched, 1) = 0 /\ gate_depth(sched, 2) = 1 /\ gate_depth(sched, 3) = 2
    /\ sched.max_depth = 2


\* the least whole depth above x
NextBoundary(x) == Scale * ((x \div Scale) + 1)

\* tick() is called on a paused scheduler just after step()
PausedStepTick == last.op = "step" /\ sched.mode = "PAUSED" /\ last'.op = "tick"

C16_CompleteMeansResolved ==
    is_complete(sched) =>
        /\ \A i \in DOMAIN topo_order : is_gate_resolved(sched, topo_order[i])
        /\ \A w \in DOMAIN wires : is_wire_resolved(sched, Cur, w)

\* a tick has brought a scheduler on a chain of three gates to completion
C16_Witness ==
    /\ last.op = "tick"
    /\ ~is_complete(last.before)
    /\ is_complete(sched)
    /\ Len(topo_order) = 3 /\ sched.max_depth = 2


\* nothing is resolved and nothing has begun to arrive
NothingResolved(s, c) ==
    /\ \A g \in DOMAIN c.gates :
          ~is_gate_resolved(s, g) /\ gate_resolve_fraction(s, g) = 0
    /\ \A w \in DOMAIN c.wires :
          ~is_wire_resolved(s, c, w) /\ wire_signal_progress(s, c, w) = 0

C18_PausedTickNoOp ==
    [][(last'.op = "tick" /\ sched.mode = "PAUSED" /\ ~sched.step_requested) =>
          /\ sched'.current_depth = sched.current_depth
          /\ sched'.mode = sched.mode
          /\ sched'.speed = sched.speed
          /\ sched'.step_requested = sched.step_requested]_vars

\* a whole second has ticked on a scheduler paused half-way, and left it there
C18_Witness ==
    /\ last.op = "tick" /\ last.args = <<Scale>>
    /\ last.before.mode = "PAUSED" /\ ~last.before.step_requested
    /\ last.before.current_depth = 1
    /\ ~is_complete(last.before)
    /\ sched = last.before


\* C19: step() sets the one-shot request and turns REALTIME into PAUSED
\* (nothing else changes); the next tick() makes the step advance alone, to
\* the next whole depth or to max_depth + 1, never the speed * dt advance
\* as well, and clears the request, whatever the mode is; a step() that
\* finds the request already set right after another step() changes
\* nothing, so that any number of step() calls before one tick give one
\* advance; and a tick() on a paused scheduler without a request is a no-op.
C19_OneShotStep ==
    [][/\ last'.op = "step" =>
             /\ sched'.step_requested
             /\ sched'.mode = IF sched.mode = "REALTIME" THEN "PAUSED" ELSE sched.mode
             /\ sched'.current_depth = sched.current_depth
             /\ sched'.speed = sched.speed
       /\ (last'.op = "step" /\ last.op = "step") => sched' = sched
       /\ (last'.op = "tick" /\ sched.step_requested) =>
             /\ sched'.current_depth =
                   Min(NextBoundary(sched.current_depth), Scale * (sched.max_depth + 1))
             /\ ~sched'.step_requested
             /\ sched'.mode = sched.mode
             /\ sched'.speed = sched.speed
       /\ (last'.op = "tick" /\ ~sched.step_requested /\ sched.mode = "PAUSED") =>
             sched' = sched]_vars

\* a request was pending on a scheduler back in REALTIME mode at depth 0;
\* a tick of one second has moved it to depth 1 and no further, although
\* its speed is 2 or more, and has cleared the request
C19_Witness ==
    /\ last.op = "tick" /\ last.args = <<Scale>>
    /\ last.before.step_requested /\ last.before.mode = "REALTIME"
    /\ last.before.current_depth = 0 /\ last.before.speed >= 2 * Scale
    /\ sched.max_depth >= 2
    /\ sched.current_depth = Scale
    /\ ~sched.step_requested


\* clamp(x, lo, hi)
Clamp(x, lo, hi) == IF x < lo THEN lo ELSE IF x > hi THEN hi ELSE x

\* C20: in every state of the scheduler, gate_resolve_fraction(g) is
\* clamp(current_depth - depth(g), 0, 1), lies in [0, 1] and is positive
\* only if is_gate_resolved(g); wire_signal_progress(w) is
\* clamp(current_depth - depth(source(w)), 0, 1) for a wire a gate drives,
\* and for a primary-input wire 0 while current_depth < 0 and
\* min(current_depth + 1, 1) otherwise.
C20_Fractions ==
    /\ \A g \in DOMAIN gates :
          /\ gate_resolve_fraction(sched, g) =
                Clamp(sched.current_depth - Scale * gate_depth(sched, g), 0, Scale)
          /\ gate_resolve_fraction(sched, g) \in 0..Scale
          /\ gate_resolve_fraction(sched, g) > 0 => is_gate_resolved(sched, g)
    /\ \A w \in DOMAIN wires :
          wire_signal_progress(sched, Cur, w) =
             IF wires[w].source # NULL
             THEN Clamp(sched.current_depth - Scale * gate_depth(sched, wires[w].source),
                        0, Scale)
             ELSE IF sched.current_depth < 0 THEN 0
             ELSE IF sched.current_depth + Scale <= Scale THEN sched.current_depth + Scale
             ELSE Scale

\* at depth 1.5 on a chain of three gates: the first gate has fully faded
\* in, the second is half-way, the third has not begun, and the wire the
\* second gate drives is half-way too
C20_Witness ==
    /\ last.op = "tick"
    /\ sched.current_depth = Scale + 1
    /\ Len(gates) = 3 /\ sched.max_depth = 2
    /\ \E g1, g2, g3 \in DOMAIN gates :
          /\ gate_resolve_fraction(sched, g1) = Scale
          /\ gate_resolve_fraction(sched, g2) = 1
          /\ gate_resolve_fraction(sched, g3) = 0
          /\ \E w \in DOMAIN wires :
                wires[w].source = g2 /\ wire_signal_progress(sched, Cur, w) = 1
    /\ \E w \in DOMAIN wires :
          wires[w].source = NULL /\ wire_signal_progress(sched, Cur, w) = Scale


\* the source and output links are mutual: wire w has source g exactly when
\* gate g has output w
MutualLinks(gs, ws) ==
    \A g \in DOMAIN gs, w \in DOMAIN ws : (ws[w].source = g) <=> (gs[g].output = w)

\* C21: across any sequence of connect calls, successful or failing, a
\* wire's source gate once set is never changed to another gate, a gate's
\* output wire once set is never changed to another wire, and the links
\* stay mutual (wire.source = g iff g.output = wire), so that no gate drives
\* two wires and no wire has two drivers.
C21_LinksStable ==
    [][/\ \A w \in DOMAIN wires : wires[w].source # NULL => wires'[w].source = wires[w].source
       /\ \A g \in DOMAIN gates : gates[g].output # NULL => gates'[g].output = gates[g].output
       /\ MutualLinks(gates', wires')
       /\ \A g \in DOMAIN gates' :
             Cardinality({w \in DOMAIN wires' : wires'[w].source = g}) <= 1]_vars

\* connect() has just refused to give a second driver to a wire that a
\* gate drives, while another wire is still free and another gate drives
\* nothing
C21_Witness ==
    /\ last.op = "connect" /\ last.res = "runtime_error"
    /\ last.args[1] # NULL /\ last.args[2] # NULL
    /\ wires[last.args[1]].source \notin {NULL, last.args[2]}
    /\ gates[wires[last.args[1]].source].output = last.args[1]
    /\ gates[last.args[2]].output = NULL


\* the gates the rewrite of one gate of this type adds
Added(type) ==
    CASE type \in {"BUFFER", "AND"} -> 1
      [] type = "OR"                -> 2
      [] type = "XOR"               -> 3
      [] OTHER                      -> 0

RECURSIVE AddedUpTo(_, _)
AddedUpTo(st, g) ==
    IF g = 0 THEN 0 ELSE AddedUpTo(st, g - 1) + Added(st.gates[g].type)

\* the last gate of the expansion of gate g of the structure st: g itself
\* when the rewrite adds no gate, else the last of the gates added for it
ExpansionEnd(st, g) ==
    IF Added(st.gates[g].type) = 0 THEN g ELSE Len(st.gates) + AddedUpTo(st, g)

\* the gates of st the pass rewrites, and those of them that drive a wire
Rewritten(st) == {g \in DOMAIN st.gates : st.gates[g].type # "NAND"}
RewrittenDrivers(st) == {g \in Rewritten(st) : st.gates[g].output # NULL}

\* the entries of a destination list that are gates the pass does not rewrite
KeptConsumers(st, dests) ==
    SelectSeq(dests, LAMBDA h : h \in DOMAIN st.gates /\ h \notin Rewritten(st))

\* what C22 says of the wires, the pin lists and the drivers
WiresKept(st) ==
    /\ Len(wires) >= Len(st.wires)
    /\ input_wires = st.input_wires
    /\ output_wires = st.output_wires
    /\ \A w \in DOMAIN st.wires : st.wires[w].source = NULL => wires[w].source = NULL
    /\ \A g \in RewrittenDrivers(st) :
          LET w == st.gates[g].output
          IN  /\ wires[w].source = ExpansionEnd(st, g)
              /\ {h \in DOMAIN gates : gates[h].output = w} = {ExpansionEnd(st, g)}

C23_GatesKeepOutput ==
    (last.op = "decompose_to_nand" /\ last.res = "ok") =>
        \A g \in DOMAIN pre.c.gates :
            /\ g \in DOMAIN gates
            /\ gates[g].output = pre.c.gates[g].output


\* the circuits C24 speaks of: finalized, connectivity-consistent, acyclic,
\* every gate that is not a NAND with one pin (NOT, BUFFER) or two (AND, OR,
\* XOR) and with an output wire
InContract(c) ==
    /\ c.finalized
    /\ ~PinCountsDiffer(c.gates, c.wires)
    /\ ~BackLinkBroken(c.gates, c.wires)
    /\ ~HasCycle(c.gates, c.wires)
    /\ \A g \in DOMAIN c.gates :
          c.gates[g].type # "NAND" =>
             /\ c.gates[g].output # NULL
             /\ Len(c.gates[g].inputs) = IF c.gates[g].type \in {"NOT", "BUFFER"} THEN 1 ELSE 2

\* C24: on such a circuit decompose_to_nand always completes and its closing
\* finalize() succeeds: in the rewritten graph every wire occurs in a gate's
\* inputs as often as the gate occurs in the wire's destinations (gates that
\* read one wire on both pins included), the output links are mutual, there
\* is no cycle, and the recomputed topological order holds every gate,
\* original or synthesized, exactly once.
C24_DecomposeRefinalizes ==
    [][(last'.op = "decompose_to_nand" /\ InContract(Cur)) =>
          /\ last'.res = "ok"
          /\ finalized'
          /\ ~PinCountsDiffer(gates', wires')
          /\ ~BackLinkBroken(gates', wires')
          /\ ~HasCycle(gates', wires')
          /\ Len(gates') = Len(gates) + Growth(Structure(Cur))
          /\ Len(topo_order') = Len(gates')
          /\ \A g \in DOMAIN gates' : Count(topo_order', g) = 1]_vars

\* the pass has returned on a circuit that held a two-pin gate reading one
\* wire on both pins, and that gate's rewrite added gates
C24_Witness ==
    /\ last.op = "decompose_to_nand" /\ last.res = "ok"
    /\ \E g \in DOMAIN pre.c.gates :
          /\ pre.c.gates[g].type \in {"AND", "OR", "XOR"}
          /\ pre.c.gates[g].output # NULL
          /\ pre.c.gates[g].inputs[1] = pre.c.gates[g].inputs[2]
    /\ \A g \in DOMAIN pre.c.gates :
          pre.c.gates[g].type # "NAND" => pre.c.gates[g].output # NULL
    /\ Len(gates) > Len(pre.c.gates)
    /\ Len(topo_order) = Len(gates)


\* -1 <= current_depth <= max_depth + 1
DepthInRange(s) ==
    /\ -Scale <= s.current_depth
    /\ s.current_depth <= Scale * (s.max_depth + 1)

\* C25: with speed and dt not negative, every reachable state of the
\* scheduler has -1 <= current_depth <= max_depth + 1; current_depth never
\* decreases under tick(), step() or toggle_pause() (nor under set_mode()
\* and set_speed()): reset() alone lowers it, so that a gate or a wire that
\* is resolved stays resolved until the next reset().
C25_DepthMonotone ==
    [][/\ DepthInRange(sched) /\ DepthInRange(sched')
       /\ last'.op # "reset" =>
             /\ sched'.current_depth >= sched.current_depth
             /\ \A g \in DOMAIN gates :
                   is_gate_resolved(sched, g) => is_gate_resolved(sched', g)
             /\ \A w \in DOMAIN wires :
                   is_wire_resolved(sched, Cur, w) => is_wire_resolved(sched', Cur, w)]_vars

\* a REALTIME tick whose advance would have passed max_depth + 1 has
\* stopped there, a gate resolved before it still is, and the circuit has a
\* gate at depth 1
C25_Witness ==
    /\ last.op = "tick"
    /\ last.before.mode = "REALTIME" /\ ~last.before.step_requested
    /\ last.before.current_depth
          + (last.before.speed * last.args[1]) \div Scale > Scale * (sched.max_depth + 1)
    /\ sched.current_depth = Scale * (sched.max_depth + 1)
    /\ sched.max_depth >= 1
    /\ \E g \in DOMAIN gates : is_gate_resolved(last.before, g) /\ is_gate_resolved(sched, g)


\* C26: reset() discards all progress in flight: a tick() that follows a
\* reset() in PAUSED mode, with no step(), toggle_pause() or set_mode()
\* between the two, leaves current_depth at -1 and nothing resolved,
\* whatever calls came before the reset().
C26_ResetDiscardsProgress ==
    [][(last.op = "reset" /\ sched.mode = "PAUSED" /\ last'.op = "tick") =>
          /\ sched'.current_depth = -Scale
          /\ NothingResolved(sched', Cur)]_vars


\* C27: in every reachable state in which propagate() is permitted (the
\* finalized flag is set), the cached topological order holds every gate
\* now in the circuit exactly once and puts the source gate of every wire
\* before every gate that reads the wire, across any sequence of add_gate,
\* add_wire, connect and finalize calls, failing ones included.
C27_OrderValidWhenFinalized ==
    finalized =>
        /\ Len(topo_order) = Len(gates)
        /\ \A g \in DOMAIN gates : Count(topo_order, g) = 1
        /\ \A u, v \in DOMAIN gates :
              Edge(gates, wires, u, v) => IndexOf(topo_order, u) < IndexOf(topo_order, v)


\* C28: a circuit built through add_gate, add_wire and connect alone (any
\* sequence, failing connects and repeated connections of one wire to one
\* destination included) is always consistent in both directions: every
\* wire occurs in a gate's inputs as often as the gate occurs in the wire's
\* destinations, a connect with a destination appending to both lists; so
\* finalize() never fails with the connectivity error on such a circuit.
C28_BuiltConsistent ==
    [][/\ ~PinCountsDiffer(gates', wires')
       /\ validate_connectivity(gates', wires')
       /\ last'.op = "finalize" => last'.res # "connectivity_error"
       /\ (last'.op = "connect" /\ last'.res = "ok" /\ last'.args[3] # NULL) =>
             /\ gates'[last'.args[3]].inputs
                   = Append(gates[last'.args[3]].inputs, last'.args[1])
             /\ wires'[last'.args[1]].destinations
                   = Append(wires[last'.args[1]].destinations, last'.args[3])]_vars

\* finalize() has succeeded on a circuit in which one wire was connected
\* twice to the same gate and another gate reads a gate-driven wire
C28_Witness ==
    /\ last.op = "finalize" /\ last.res = "ok"
    /\ \E g \in DOMAIN gates, w \in DOMAIN wires :
          Count(gates[g].inputs, w) = 2 /\ Count(wires[w].destinations, g) = 2
    /\ \E w \in DOMAIN wires : wires[w].source # NULL /\ wires[w].destinations # <<>>


MaxPairs == 5

FrameTimes == DeltaTimes \ {0}

InitFinish ==
    /\ \/ InitCircuit(Circuit_finalize(EmptyCircuit))
       \/ \E s \in Shapes(SchedSize) :
             \E defs \in LayeredDefs({"NOT", "NAND"}, {1, 2}, {TRUE}, s[1], s[2]) :
                /\ \A k \in DOMAIN defs : ContractArity(defs[k])
                /\ InitCircuit(Circuit_finalize(build_layered(s[1], defs)))
    /\ \E speed \in Speeds \cup {3 * Scale}, paused \in BOOLEAN :
          LET built == Scheduler_set_speed(PropagationScheduler(Cur), speed)
              found == IF paused THEN Scheduler_toggle_pause(built) ELSE built
          IN  /\ sched = Scheduler_reset(found)
              /\ last = Call("reset", <<>>, "ok") @@ [before |-> found, pairs |-> 0]
    /\ pre = NoPre
    /\ ev = NoEval

\* a frame of a paused run: step(), then tick(delta_time)
step_and_tick(delta_time) ==
    /\ sched' = Scheduler_tick(Scheduler_step(sched), delta_time)
    /\ last' = Call("step_and_tick", <<delta_time>>, "ok")
                  @@ [before |-> sched, pairs |-> last.pairs + 1]
    /\ UNCHANGED <<circ, pre, ev>>

RealtimeFrame == \E delta_time \in FrameTimes : sched.mode = "REALTIME" /\ tick(delta_time)

NextFinish ==
    \/ RealtimeFrame
    \/ sched.mode = "REALTIME" /\ is_complete(sched) /\ reset
    \/ \E delta_time \in FrameTimes :
          sched.mode = "PAUSED" /\ last.pairs < MaxPairs /\ step_and_tick(delta_time)

SpecFinish == InitFinish /\ [][NextFinish]_vars /\ WF_vars(RealtimeFrame)

\* C30: the animation always finishes.  In REALTIME mode with speed > 0,
\* repeated tick(dt) calls with dt no less than a positive constant
\* eventually make is_complete() true, and it stays true until reset(); in
\* PAUSED mode from a reset state, is_complete() is true after max_depth + 2
\* pairs of step() and tick() and after no fewer.
C30_AnimationFinishes ==
    /\ [](sched.mode = "REALTIME" => <>is_complete(sched))
    /\ [][(is_complete(sched) /\ last'.op # "reset") => is_complete(sched')]_vars
    /\ [](sched.mode = "PAUSED" =>
             (is_complete(sched) <=> last.pairs >= sched.max_depth + 2))

\* a paused run on a circuit of depth 2 has just completed with its fourth
\* pair of step() and tick()
C30_Witness ==
    /\ last.op = "step_and_tick"
    /\ sched.max_depth = 2
    /\ last.pairs = 4
    /\ ~is_complete(last.before)
    /\ is_complete(sched)

====
